---- MODULE Spec2Model ----
(***************************************************************************)
(* Archival file-encryption engine of the records-management backend:      *)
(* encryptDocumentFiles / decryptDocumentFiles of                          *)
(* src/src/services/documentServices.js, run over a record store           *)
(* (document_tbl) and a filesystem.  Every filesystem call and every await *)
(* of the two functions is one step of an invocation.                      *)
(***************************************************************************)
EXTENDS Integers, Sequences, FiniteSets, TLC

(* ------------------------------ bounds -------------------------------- *)
NumDocs == 2        \* documents in document_tbl
MaxRefs == 2        \* longest doc_reference list of a document
MaxFaults == 1      \* injected failures (I/O, cipher, record store, tamper) per behaviour
MaxMissing == 1     \* documents' files absent in the initial state (missing on disk, or doc_file '')
MaxLayers == 2      \* encryption layers a file may carry before archiving stops
MaxCalls == 2       \* calls in a row that SpecPair follows

Docs == 1 .. NumDocs
Cases == {1, 2}
Procs == {1, 2}     \* the requests that may be in flight at once
Callers == {1}      \* one request at a time, except under SpecConc

(* ------------------------------ values -------------------------------- *)
NullPath == 0       \* doc_file IS NULL
EmptyPath == -1     \* doc_file = '' : NOT NULL for the query, falsy for `if (doc.doc_file)`

\* the path of the primary file (i = 0) or of the i-th reference file of document d
PathOf(d, i) == d * (MaxRefs + 1) + i
PrimaryFiles == {PathOf(d, 0) : d \in Docs}

Sfx == {"", ".original", ".tmp.enc", ".tmp.dec"}

\* file contents: the plaintext of `base` under a stack of encryption layers
AbsentC == [st |-> "absent", base |-> 0, layers |-> <<>>]
PartialC == [st |-> "partial", base |-> 0, layers |-> <<>>]
Plain(f) == [st |-> "file", base |-> f, layers |-> <<>>]
IsFile(c) == c.st = "file"
IsCipher(c) == c.st = "file" /\ Len(c.layers) > 0
IsPlain(c) == c.st = "file" /\ Len(c.layers) = 0

NullMeta == [key |-> 0, checksum |-> AbsentC]

\* (mutant) the structured entry is pushed without the reference's metadata
EncRefNoMeta(f, m) == [structured |-> TRUE, path |-> f, isEncrypted |-> TRUE, metadata |-> NullMeta]

\* a reference entry: a plain path string, or {path, isEncrypted, metadata}
PlainRef(f) == [structured |-> FALSE, path |-> f, isEncrypted |-> FALSE, metadata |-> NullMeta]
EncRef(f, m) == [structured |-> TRUE, path |-> f, isEncrypted |-> TRUE, metadata |-> m]

\* doc_reference column: NULL or a JSON array
NullRefs == [isNull |-> TRUE, items |-> <<>>]
RefArray(s) == [isNull |-> FALSE, items |-> s]

\* the reference list document d is created with: some paths, NULL, or []
InitRefs(d) ==
  IF d % 3 = 1 THEN RefArray([i \in 1 .. MaxRefs |-> PlainRef(PathOf(d, i))])
  ELSE IF d % 3 = 2 THEN NullRefs
  ELSE RefArray(<<>>)

RefFilesOf(d) == {InitRefs(d).items[i].path : i \in 1 .. Len(InitRefs(d).items)}
Files == PrimaryFiles \cup UNION {RefFilesOf(d) : d \in Docs}
CaseOf(d) == IF d <= 2 THEN 1 ELSE 2

(* --------------------------- envelope cipher -------------------------- *)
\* the data keys of the layers of a content
KeysOfContent(c) == {c.layers[i].key : i \in 1 .. Len(c.layers)}

\* encrypt: a fresh data key wraps the content; the metadata names the key
\* and carries the checksum of what was encrypted
EncryptContent(c, k) == [c EXCEPT !.layers = Append(@, [key |-> k, ok |-> TRUE])]
MetaFor(c, k) == [key |-> k, checksum |-> c]

\* decrypt: what is under the outermost layer
Inner(c) == [c EXCEPT !.layers = SubSeq(@, 1, Len(@) - 1)]
\* the tag verifies (right key, ciphertext intact) and the checksum matches
DecryptOk(c, m) ==
  /\ IsCipher(c)
  /\ m.key # 0
  /\ c.layers[Len(c.layers)].key = m.key
  /\ c.layers[Len(c.layers)].ok
  /\ Inner(c) = m.checksum

\* a bit flipped in the ciphertext or its tag
TamperContent(c) == [c EXCEPT !.layers[Len(c.layers)].ok = FALSE]

(* ----------------------------- master key ----------------------------- *)
KeyLength == 64     \* process.env.MASTER_KEY.length !== 64

\* a MASTER_KEY value: unset, or a string of some length, all hex digits or not
UnsetKey == [set |-> FALSE, len |-> 0, hex |-> TRUE]
KeyString(n, h) == [set |-> TRUE, len |-> n, hex |-> h]
HexKey == KeyString(KeyLength, TRUE)
MasterKeys ==
  {UnsetKey, KeyString(0, TRUE)}
    \cup {KeyString(n, h) : n \in {KeyLength - 1, KeyLength, KeyLength + 1}, h \in BOOLEAN}

(* ------------------------------- state -------------------------------- *)
VARIABLES
  store,    \* document_tbl: doc_id -> row
  fs,       \* the disk: <<path, suffix>> -> content
  inv,      \* the running invocation of each caller: position, locals, results
  faults,   \* failures injected so far
  snap,     \* per caller: disk and record store when its current call started
  prev,     \* the calls that returned so far and the result of the last one (SpecPair)
  boot,     \* the server process: its MASTER_KEY and how far startup has come
  crashed,  \* the last interruption of the process: the document that was in flight
  case_tbl, \* case_tbl: case_id -> the row's case_status, "none" or "deleted"
  cache,    \* the LRU cache of utils/cache.js: key -> entry
  wraps,    \* the cached reads (cache.wrap calls) in flight
  mutation  \* the createCase / updateCase / deleteCase call in flight

docVars == <<store, fs, inv, faults, snap, prev, boot, crashed>>
caseVars == <<case_tbl, cache, wraps, mutation>>
vars == <<store, fs, inv, faults, snap, prev, boot, crashed, caseVars>>

(* the cached reads of caseServices.js and what they are asked for *)
CaseStatuses == {"Processing", "Closed"}
Readers == {1}

\* const nsKey = (ns, key) => `${ns}:${key}`
nsKey(ns, key) == <<ns, key>>
\* String(caseId)
String(c) == <<"1", "2">>[c]
\* the keys the reads of the model use: getCases, getCaseById, getCasesByUserId
\* (one user), countProcessingCases, searchCases (one search term)
CacheKeys ==
  {nsKey("cases", "all"), nsKey("cases_by_user", "1"),
   nsKey("cases_count", "processing"), nsKey("case_search", "processing")}
    \cup {nsKey("case", String(c)) : c \in Cases}

NoEntry == [has |-> FALSE, value |-> {}]
IdleWrap == [pc |-> "idle", key |-> nsKey("cases", "all"), value |-> {}, quiet |-> FALSE]
IdleMutation == [pc |-> "idle", op |-> "none", caseId |-> 0, calls |-> 0]

\* one case exists, nothing is cached, no request is in flight
InitCases ==
  /\ case_tbl = [c \in Cases |-> IF c = 1 THEN "Processing" ELSE "none"]
  /\ cache = [k \in CacheKeys |-> NoEntry]
  /\ wraps = [r \in Readers |-> IdleWrap]
  /\ mutation = IdleMutation

IdleInv ==
  [pc |-> "idle", op |-> "none", caseId |-> 0, documents |-> <<>>, idx |-> 0,
   success |-> <<>>, failed |-> <<>>, totalCount |-> 0,
   refIdx |-> 0, updatedReferences |-> NullRefs, metadata |-> NullMeta,
   refMeta |-> NullMeta, stream |-> "none"]

NoSnap == [fs |-> <<>>, store |-> <<>>, faults |-> 0]
NoPrev == [calls |-> 0, op |-> "none", caseId |-> 0, success |-> {}, clean |-> TRUE]

NoCrash == [doc |-> 0, caseId |-> 0, clean |-> FALSE, faults |-> 0]

\* the documents of the cases and their files, nothing archived yet; document
\* emptyDoc (if any) has doc_file '' and the files in missing are not on disk
InitData(emptyDoc, missing) ==
  /\ store = [d \in Docs |->
       [doc_id |-> d, case_id |-> CaseOf(d),
        doc_file |-> IF d = emptyDoc THEN EmptyPath ELSE PathOf(d, 0),
        is_encrypted |-> FALSE, encryption_metadata |-> NullMeta,
        doc_reference |-> InitRefs(d), is_deleted |-> FALSE]]
  /\ fs = [x \in Files \X Sfx |->
       IF x[2] = "" /\ x[1] \notin missing
            /\ (emptyDoc = 0 \/ x[1] # PathOf(emptyDoc, 0))
       THEN Plain(x[1]) ELSE AbsentC]
  /\ inv = [p \in Procs |-> IdleInv]
  /\ faults = 0
  /\ snap = [p \in Procs |-> NoSnap]
  /\ prev = NoPrev
  /\ crashed = NoCrash
  /\ InitCases

\* every file is on disk and the server is up
InitUp ==
  /\ InitData(0, {})
  /\ boot = [key |-> HexKey, phase |-> "listening"]

\* the server is up (it was started with a 64-character hex MASTER_KEY)
Init ==
  \E emptyDoc \in Docs \cup {0}, missing \in SUBSET Files :
    /\ Cardinality(missing) + (IF emptyDoc = 0 THEN 0 ELSE 1) <= MaxMissing
    /\ InitData(emptyDoc, missing)
    /\ boot = [key |-> HexKey, phase |-> "listening"]

(* ------------------------------ helpers ------------------------------- *)
\* the failures a step may suffer: none once the budget is used up
FaultChoices == IF faults < MaxFaults THEN {FALSE, TRUE} ELSE {FALSE}
Charge(fault) == faults' = IF fault THEN faults + 1 ELSE faults

\* every enumeration order of a set of rows (the queries have no ORDER BY)
Orders(S) ==
  {s \in [1 .. Cardinality(S) -> S] : \A i, j \in 1 .. Cardinality(S) : s[i] = s[j] => i = j}

\* the data keys that files and records carry for the bytes of file f
MetaKeys(m, f) ==
  IF m.key # 0 /\ m.checksum.base = f THEN {m.key} \cup KeysOfContent(m.checksum) ELSE {}
RefKeys(refs, f) ==
  UNION {MetaKeys(refs.items[i].metadata, f) : i \in 1 .. Len(refs.items)}
UsedKeys(f) ==
  UNION {IF fs[x].base = f THEN KeysOfContent(fs[x]) ELSE {} : x \in DOMAIN fs}
  \cup UNION {MetaKeys(store[d].encryption_metadata, f) \cup RefKeys(store[d].doc_reference, f) :
                d \in Docs}
  \cup UNION {MetaKeys(inv[p].metadata, f) \cup MetaKeys(inv[p].refMeta, f)
                \cup RefKeys(inv[p].updatedReferences, f) : p \in Procs}
\* a fresh random data key for the bytes of file f: one that nothing carries
FreshKey(f) == CHOOSE k \in 1 .. (Cardinality(UsedKeys(f)) + 1) : k \notin UsedKeys(f)

Doc(p) == inv[p].documents[inv[p].idx]
\* (mutant) the path is taken from the first document of the batch
FilePathOfFirst(p) == inv[p].documents[1].doc_file
FilePath(p) == Doc(p).doc_file
RefEntry(p) == Doc(p).doc_reference.items[inv[p].refIdx]
IsArray(r) == ~r.isNull

\* `for (const doc of documents)`: on to the next document, or `return results`
NextDoc(r) ==
  LET c == [r EXCEPT !.refIdx = 0, !.updatedReferences = NullRefs, !.metadata = NullMeta,
                     !.refMeta = NullMeta, !.stream = "none"]
  IN IF r.idx < Len(r.documents)
     THEN [c EXCEPT !.idx = @ + 1, !.pc = IF r.op = "enc" THEN "e_doc" ELSE "d_doc"]
     ELSE [c EXCEPT !.pc = "done"]

\* (mutant) the failure is logged but not added to results.failed
PushFailedLogOnly(r, msg) == r

\* results.failed.push({ docId, error })
PushFailed(r, msg) == [r EXCEPT !.failed = Append(@, [docId |-> r.documents[r.idx].doc_id, error |-> msg])]

\* (mutant) the branches that keep the original path string forget to push it
PushRefLossy(r, entry) ==
  LET n == Len(r.documents[r.idx].doc_reference.items)
      u == [r EXCEPT !.updatedReferences =
                       IF entry.structured THEN RefArray(Append(@.items, entry)) ELSE @,
                     !.refMeta = NullMeta]
  IN IF r.refIdx < n
     THEN [u EXCEPT !.refIdx = @ + 1, !.pc = IF r.op = "enc" THEN "e_ref" ELSE "d_ref"]
     ELSE [u EXCEPT !.pc = IF r.op = "enc" THEN "e_update" ELSE "d_update"]

\* `for (const ref of doc.doc_reference)`: push the entry, on to the next
\* reference or to the record-store update
PushRef(r, entry) ==
  LET n == Len(r.documents[r.idx].doc_reference.items)
      u == [r EXCEPT !.updatedReferences = RefArray(Append(@.items, entry)),
                     !.refMeta = NullMeta, !.stream = "none"]
  IN IF r.refIdx < n
     THEN [u EXCEPT !.refIdx = @ + 1, !.pc = IF r.op = "enc" THEN "e_ref" ELSE "d_ref"]
     ELSE [u EXCEPT !.pc = IF r.op = "enc" THEN "e_update" ELSE "d_update"]

\* `let updatedReferences = doc.doc_reference; if (Array.isArray(...)) updatedReferences = []`
StartRefs(r) ==
  LET refs == r.documents[r.idx].doc_reference
  IN IF IsArray(refs) /\ Len(refs.items) > 0
     THEN [r EXCEPT !.updatedReferences = RefArray(<<>>), !.refIdx = 1,
                    !.pc = IF r.op = "enc" THEN "e_ref" ELSE "d_ref"]
     ELSE [r EXCEPT !.updatedReferences = refs,
                    !.pc = IF r.op = "enc" THEN "e_update" ELSE "d_update"]

\* (mutant) the query error is swallowed and an empty result is returned
QueryFailedSwallowed(r) == [r EXCEPT !.pc = "done"]

\* the outer catch: console.error, `throw err`
QueryFailed(r) == [r EXCEPT !.pc = "threw"]

(* ------------------------ encryptDocumentFiles ------------------------ *)
\* (mutant) the file is encrypted in place, no temporary file
EncTempInPlace(f) == <<f, "">>

\* const tempEncPath = filePath + ".tmp.enc"
EncTemp(f) == <<f, ".tmp.enc">>

\* (mutant) the per-document catch rethrows instead of recording the failure
EncThrowRethrow(r, msg) == [r EXCEPT !.pc = "threw"]

\* the catch of the per-document try: record the failure, then roll back
EncThrow(r, msg) == [PushFailed(r, msg) EXCEPT !.pc = "e_rollback"]

\* (mutant) the query forgets the is_encrypted filter
EncCandidatesAll(c) ==
  {d \in Docs : /\ store[d].case_id = c
                /\ ~store[d].is_deleted
                /\ store[d].doc_file # NullPath}

\* the initial query: non-deleted, not yet encrypted documents of the case with a doc_file
EncCandidates(c) ==
  {d \in Docs : /\ store[d].case_id = c
                /\ ~store[d].is_encrypted
                /\ ~store[d].is_deleted
                /\ store[d].doc_file # NullPath}

\* the initial query and the empty-batch return
EncStart(p, c) ==
  /\ inv[p].pc = "idle"
  /\ \A x \in DOMAIN fs : Len(fs[x].layers) < MaxLayers
  /\ \E fault \in FaultChoices :
       /\ Charge(fault)
       /\ IF fault
          THEN inv' = [inv EXCEPT ![p] = QueryFailed([IdleInv EXCEPT !.op = "enc", !.caseId = c])]
          ELSE \E order \in Orders(EncCandidates(c)) :
                 LET documents == [i \in 1 .. Len(order) |-> store[order[i]]]
                     r == [IdleInv EXCEPT !.op = "enc", !.caseId = c,
                                          !.documents = documents,
                                          !.totalCount = Len(documents)]
                 IN inv' = [inv EXCEPT ![p] =
                      IF Len(documents) = 0 THEN [r EXCEPT !.pc = "done"]
                      ELSE [r EXCEPT !.pc = "e_doc", !.idx = 1]]
  /\ snap' = [snap EXCEPT ![p] = [fs |-> fs, store |-> store, faults |-> faults]]
  /\ UNCHANGED <<store, fs, prev, boot, crashed, caseVars>>

\* if (doc.doc_file) { existsSync(filePath) ... copyFileSync(filePath, backupPath)
EncBackup(p) ==
  /\ inv[p].pc = "e_doc"
  /\ LET r == inv[p]
         f == FilePath(p)
     IN IF f = NullPath \/ f = EmptyPath
        THEN /\ inv' = [inv EXCEPT ![p] = NextDoc(r)]
             /\ UNCHANGED <<fs, faults>>
        ELSE IF ~IsFile(fs[<<f, "">>])
        THEN /\ inv' = [inv EXCEPT ![p] = EncThrow(r, "File not found")]
             /\ UNCHANGED <<fs, faults>>
        ELSE \E fault \in FaultChoices :
               /\ Charge(fault)
               /\ IF fault
                  THEN /\ inv' = [inv EXCEPT ![p] = EncThrow(r, "copy failed")]
                       /\ fs' = fs
                  ELSE /\ inv' = [inv EXCEPT ![p].pc = "e_encrypt"]
                       /\ fs' = [fs EXCEPT ![<<f, ".original">>] = fs[<<f, "">>]]
  /\ UNCHANGED <<store, snap, prev, boot, crashed, caseVars>>

\* const metadata = await encryptFile({ srcPath: filePath, destPath: tempEncPath })
EncEncryptFile(p) ==
  /\ inv[p].pc = "e_encrypt"
  /\ LET r == inv[p]
         f == FilePath(p)
         k == FreshKey(fs[<<f, "">>].base)
     IN \E fault \in FaultChoices :
          /\ Charge(fault)
          /\ IF fault
             THEN /\ inv' = [inv EXCEPT ![p] = EncThrow(r, "encrypt failed")]
                  /\ \E t \in {fs[EncTemp(f)], PartialC} :
                       fs' = [fs EXCEPT ![EncTemp(f)] = t]
             ELSE /\ inv' = [inv EXCEPT ![p].pc = "e_rename",
                                        ![p].metadata = MetaFor(fs[<<f, "">>], k)]
                  /\ fs' = [fs EXCEPT ![EncTemp(f)] = EncryptContent(fs[<<f, "">>], k)]
  /\ UNCHANGED <<store, snap, prev, boot, crashed, caseVars>>

\* fs.renameSync(tempEncPath, filePath); then the reference loop is set up
EncRename(p) ==
  /\ inv[p].pc = "e_rename"
  /\ LET r == inv[p]
         f == FilePath(p)
     IN \E fault \in FaultChoices :
          /\ Charge(fault)
          /\ IF fault
             THEN /\ inv' = [inv EXCEPT ![p] = EncThrow(r, "rename failed")]
                  /\ fs' = fs
             ELSE /\ inv' = [inv EXCEPT ![p] = StartRefs(r)]
                  /\ fs' = [fs EXCEPT ![<<f, "">>] = fs[EncTemp(f)],
                                      ![EncTemp(f)] = AbsentC]
  /\ UNCHANGED <<store, snap, prev, boot, crashed, caseVars>>

\* one reference of the loop: path.join, existsSync(refFilePath), and inside
\* the per-reference try the backup copy
EncRefBackup(p) ==
  /\ inv[p].pc = "e_ref"
  /\ LET r == inv[p]
         e == RefEntry(p)
         f == e.path
     IN IF e.structured
        THEN \* path.join(process.cwd(), <object>) throws a TypeError, outside the inner try
             /\ inv' = [inv EXCEPT ![p] = EncThrow(r, "TypeError")]
             /\ UNCHANGED <<fs, faults>>
        ELSE IF ~IsFile(fs[<<f, "">>])
        THEN /\ inv' = [inv EXCEPT ![p] = PushRef(r, PlainRef(f))]
             /\ UNCHANGED <<fs, faults>>
        ELSE \E fault \in FaultChoices :
               /\ Charge(fault)
               /\ IF fault
                  THEN /\ inv' = [inv EXCEPT ![p] = PushRef(r, PlainRef(f))]
                       /\ fs' = fs
                  ELSE /\ inv' = [inv EXCEPT ![p].pc = "e_ref_encrypt"]
                       /\ fs' = [fs EXCEPT ![<<f, ".original">>] = fs[<<f, "">>]]
  /\ UNCHANGED <<store, snap, prev, boot, crashed, caseVars>>

\* const refMeta = await encryptFile({ srcPath: refFilePath, destPath: refTempEnc })
EncRefEncryptFile(p) ==
  /\ inv[p].pc = "e_ref_encrypt"
  /\ LET r == inv[p]
         f == RefEntry(p).path
     IN \E fault \in FaultChoices :
          /\ Charge(fault)
          /\ IF fault
             THEN /\ inv' = [inv EXCEPT ![p] = PushRef(r, PlainRef(f))]
                  /\ \E t \in {fs[EncTemp(f)], PartialC} :
                       fs' = [fs EXCEPT ![EncTemp(f)] = t]
             ELSE /\ inv' = [inv EXCEPT ![p].pc = "e_ref_rename",
                                        ![p].refMeta = MetaFor(fs[<<f, "">>], FreshKey(fs[<<f, "">>].base))]
                  /\ fs' = [fs EXCEPT ![EncTemp(f)] = EncryptContent(fs[<<f, "">>], FreshKey(fs[<<f, "">>].base))]
  /\ UNCHANGED <<store, snap, prev, boot, crashed, caseVars>>

\* fs.renameSync(refTempEnc, refFilePath); updatedReferences.push({path, isEncrypted, metadata})
EncRefRename(p) ==
  /\ inv[p].pc = "e_ref_rename"
  /\ LET r == inv[p]
         f == RefEntry(p).path
         t == fs[EncTemp(f)]
     IN \E fault \in FaultChoices :
          /\ Charge(fault)
          /\ IF fault
             THEN /\ inv' = [inv EXCEPT ![p] = PushRef(r, PlainRef(f))]
                  /\ fs' = fs
             ELSE /\ inv' = [inv EXCEPT ![p] = PushRef(r, EncRef(f, r.refMeta))]
                  /\ fs' = [fs EXCEPT ![<<f, "">>] = t, ![EncTemp(f)] = AbsentC]
  /\ UNCHANGED <<store, snap, prev, boot, crashed, caseVars>>

\* (mutant) the update sets the flag but not the metadata
EncUpdateRowNoMeta(row, meta, refs) ==
  [row EXCEPT !.is_encrypted = TRUE, !.doc_reference = refs]

\* UPDATE document_tbl SET is_encrypted = TRUE, encryption_metadata = $1, doc_reference = $2
EncUpdateRow(row, meta, refs) ==
  [row EXCEPT !.is_encrypted = TRUE, !.encryption_metadata = meta, !.doc_reference = refs]

\* await query(UPDATE ...); results.success.push(doc.doc_id)
EncUpdate(p) ==
  /\ inv[p].pc = "e_update"
  /\ LET r == inv[p]
         d == Doc(p).doc_id
     IN \E fault \in FaultChoices :
          /\ Charge(fault)
          /\ IF fault
             THEN /\ inv' = [inv EXCEPT ![p] = EncThrow(r, "update failed")]
                  /\ store' = store
             ELSE /\ inv' = [inv EXCEPT ![p] = NextDoc([r EXCEPT !.success = Append(@, d)])]
                  /\ store' = [store EXCEPT ![d] = EncUpdateRow(@, r.metadata, r.updatedReferences)]
  /\ UNCHANGED <<fs, snap, prev, boot, crashed, caseVars>>

\* (mutant) the rollback removes the backup without copying it back
EncRollbackNoCopy(p) ==
  /\ inv[p].pc = "e_rollback"
  /\ inv' = [inv EXCEPT ![p] = IF IsFile(fs[<<FilePath(p), ".original">>])
                                THEN [inv[p] EXCEPT !.pc = "e_rb_unlink"]
                                ELSE NextDoc(inv[p])]
  /\ UNCHANGED <<store, fs, faults, snap, prev, boot, crashed, caseVars>>

\* rollback: if (existsSync(backupPath)) copyFileSync(backupPath, filePath)
EncRollback(p) ==
  /\ inv[p].pc = "e_rollback"
  /\ LET r == inv[p]
         f == FilePath(p)
     IN IF ~IsFile(fs[<<f, ".original">>])
        THEN /\ inv' = [inv EXCEPT ![p] = NextDoc(r)]
             /\ UNCHANGED <<fs, faults>>
        ELSE \E fault \in FaultChoices :
               /\ Charge(fault)
               /\ IF fault
                  THEN /\ inv' = [inv EXCEPT ![p] = NextDoc(r)]
                       /\ fs' = fs
                  ELSE /\ inv' = [inv EXCEPT ![p].pc = "e_rb_unlink"]
                       /\ fs' = [fs EXCEPT ![<<f, "">>] = fs[<<f, ".original">>]]
  /\ UNCHANGED <<store, snap, prev, boot, crashed, caseVars>>

\* rollback: fs.unlinkSync(backupPath)
EncRollbackUnlink(p) ==
  /\ inv[p].pc = "e_rb_unlink"
  /\ LET r == inv[p]
         f == FilePath(p)
     IN \E fault \in FaultChoices :
          /\ Charge(fault)
          /\ inv' = [inv EXCEPT ![p] = NextDoc(r)]
          /\ fs' = IF fault THEN fs ELSE [fs EXCEPT ![<<f, ".original">>] = AbsentC]
  /\ UNCHANGED <<store, snap, prev, boot, crashed, caseVars>>

\* the rollback's own copy throws, whatever failed before it: the inner catch
\* logs "Rollback failed" and the loop goes on
EncRollbackFails(p) ==
  /\ inv[p].pc = "e_rollback"
  /\ IsFile(fs[<<FilePath(p), ".original">>])
  /\ inv' = [inv EXCEPT ![p] = NextDoc(inv[p])]
  /\ UNCHANGED <<store, fs, faults, snap, prev, boot, crashed, caseVars>>

\* the caller receives the result object (or the rethrown query error)
Return(p) ==
  /\ inv[p].pc \in {"done", "threw"}
  /\ inv' = [inv EXCEPT ![p] = IdleInv]
  /\ snap' = [snap EXCEPT ![p] = NoSnap]
  /\ UNCHANGED <<store, fs, faults, prev, boot, crashed, caseVars>>

\* the same, and the call is remembered as the last one that returned
ReturnRecorded(p) ==
  /\ inv[p].pc \in {"done", "threw"}
  /\ prev' = [calls |-> prev.calls + 1, op |-> inv[p].op, caseId |-> inv[p].caseId,
              success |-> {inv[p].success[i] : i \in 1 .. Len(inv[p].success)},
              clean |-> (inv[p].pc = "done" /\ faults = snap[p].faults)]
  /\ inv' = [inv EXCEPT ![p] = IdleInv]
  /\ snap' = [snap EXCEPT ![p] = NoSnap]
  /\ UNCHANGED <<store, fs, faults, boot, crashed, caseVars>>

(* ------------------------ decryptDocumentFiles ------------------------ *)
\* (mutant) the write stream is opened on the file itself, no temporary file
DecTempInPlace(f) == <<f, "">>

\* const tempDecPath = filePath + ".tmp.dec"
DecTemp(f) == <<f, ".tmp.dec">>

\* (mutant) a failed decryption is swallowed and the temp file still replaces the target
DecThrowContinue(r, msg) == [r EXCEPT !.pc = "d_rename"]

\* the catch of the per-document try: record the failure; there is no rollback
DecThrow(r, msg) == NextDoc(PushFailed(r, msg))

DecCandidates(c) ==
  {d \in Docs : /\ store[d].case_id = c
                /\ store[d].is_encrypted
                /\ ~store[d].is_deleted}

\* the initial query and the empty-batch return
DecStart(p, c) ==
  /\ inv[p].pc = "idle"
  /\ \E fault \in FaultChoices :
       /\ Charge(fault)
       /\ IF fault
          THEN inv' = [inv EXCEPT ![p] = QueryFailed([IdleInv EXCEPT !.op = "dec", !.caseId = c])]
          ELSE \E order \in Orders(DecCandidates(c)) :
                 LET documents == [i \in 1 .. Len(order) |-> store[order[i]]]
                     r == [IdleInv EXCEPT !.op = "dec", !.caseId = c,
                                          !.documents = documents,
                                          !.totalCount = Len(documents)]
                 IN inv' = [inv EXCEPT ![p] =
                      IF Len(documents) = 0 THEN [r EXCEPT !.pc = "done"]
                      ELSE [r EXCEPT !.pc = "d_doc", !.idx = 1]]
  /\ snap' = [snap EXCEPT ![p] = [fs |-> fs, store |-> store, faults |-> faults]]
  /\ UNCHANGED <<store, fs, prev, boot, crashed, caseVars>>

\* if (doc.doc_file && doc.encryption_metadata) { createWriteStream(tempDecPath);
\* await decryptToStream({ encryptedPath: filePath, metadata, writable })
DecDecrypt(p) ==
  /\ inv[p].pc = "d_doc"
  /\ LET r == inv[p]
         f == FilePath(p)
         m == Doc(p).encryption_metadata
     IN IF f = NullPath \/ f = EmptyPath \/ m = NullMeta
        THEN /\ inv' = [inv EXCEPT ![p] = NextDoc(r)]
             /\ UNCHANGED <<fs, faults>>
        ELSE \E fault \in FaultChoices :
               /\ Charge(fault)
               /\ IF fault \/ ~DecryptOk(fs[<<f, "">>], m)
                  THEN /\ inv' = [inv EXCEPT ![p] =
                            DecThrow(r, IF fault THEN "decrypt failed" ELSE "integrity")]
                       /\ fs' = [fs EXCEPT ![DecTemp(f)] = PartialC]
                  ELSE /\ inv' = [inv EXCEPT ![p].pc = "d_wait"]
                       /\ fs' = [fs EXCEPT ![DecTemp(f)] = Inner(fs[<<f, "">>])]
  /\ UNCHANGED <<store, snap, prev, boot, crashed, caseVars>>

\* await new Promise((resolve, reject) => { writable.on("finish"...); writable.on("error"...) })
DecWait(p) ==
  /\ inv[p].pc = "d_wait"
  /\ \E fault \in FaultChoices :
       /\ Charge(fault)
       /\ inv' = [inv EXCEPT ![p] =
            IF fault THEN DecThrow(inv[p], "stream error")
            ELSE [inv[p] EXCEPT !.pc = "d_rename", !.stream = "none"]]
  /\ UNCHANGED <<store, fs, snap, prev, boot, crashed, caseVars>>

\* fs.renameSync(tempDecPath, filePath)
DecRename(p) ==
  /\ inv[p].pc = "d_rename"
  /\ LET r == inv[p]
         f == FilePath(p)
     IN \E fault \in FaultChoices :
          /\ Charge(fault)
          /\ IF fault
             THEN /\ inv' = [inv EXCEPT ![p] = DecThrow(r, "rename failed")]
                  /\ fs' = fs
             ELSE /\ inv' = [inv EXCEPT ![p].pc = "d_unlink"]
                  /\ fs' = [fs EXCEPT ![<<f, "">>] = fs[DecTemp(f)],
                                      ![DecTemp(f)] = AbsentC]
  /\ UNCHANGED <<store, snap, prev, boot, crashed, caseVars>>

\* (mutant) the backup of the primary file is not removed after the rename
DecUnlinkSkipped(p) ==
  /\ inv[p].pc = "d_unlink"
  /\ inv' = [inv EXCEPT ![p] = StartRefs(inv[p])]
  /\ UNCHANGED <<store, fs, faults, snap, prev, boot, crashed, caseVars>>

\* if (existsSync(backupPath)) unlinkSync(backupPath); then the reference loop is set up
DecUnlink(p) ==
  /\ inv[p].pc = "d_unlink"
  /\ LET r == inv[p]
         f == FilePath(p)
     IN IF ~IsFile(fs[<<f, ".original">>])
        THEN /\ inv' = [inv EXCEPT ![p] = StartRefs(r)]
             /\ UNCHANGED <<fs, faults>>
        ELSE \E fault \in FaultChoices :
               /\ Charge(fault)
               /\ IF fault
                  THEN /\ inv' = [inv EXCEPT ![p] = DecThrow(r, "unlink failed")]
                       /\ fs' = fs
                  ELSE /\ inv' = [inv EXCEPT ![p] = StartRefs(r)]
                       /\ fs' = [fs EXCEPT ![<<f, ".original">>] = AbsentC]
  /\ UNCHANGED <<store, snap, prev, boot, crashed, caseVars>>

\* one reference of the loop: a structured encrypted entry is decrypted to
\* its temp file, any other entry passes through as its path
DecRefDecrypt(p) ==
  /\ inv[p].pc = "d_ref"
  /\ LET r == inv[p]
         e == RefEntry(p)
         f == e.path
     IN IF ~(e.structured /\ e.isEncrypted /\ e.metadata # NullMeta)
        THEN /\ inv' = [inv EXCEPT ![p] = PushRef(r, PlainRef(f))]
             /\ UNCHANGED <<fs, faults>>
        ELSE \E fault \in FaultChoices :
               /\ Charge(fault)
               /\ IF fault \/ ~DecryptOk(fs[<<f, "">>], e.metadata)
                  THEN /\ inv' = [inv EXCEPT ![p] = PushRef(r, e)]
                       /\ fs' = [fs EXCEPT ![DecTemp(f)] = PartialC]
                  ELSE /\ inv' = [inv EXCEPT ![p].pc = "d_ref_wait"]
                       /\ fs' = [fs EXCEPT ![DecTemp(f)] = Inner(fs[<<f, "">>])]
  /\ UNCHANGED <<store, snap, prev, boot, crashed, caseVars>>

\* the wait for the reference's write stream
DecRefWait(p) ==
  /\ inv[p].pc = "d_ref_wait"
  /\ \E fault \in FaultChoices :
       /\ Charge(fault)
       /\ inv' = [inv EXCEPT ![p] =
            IF fault THEN PushRef(inv[p], RefEntry(p))
            ELSE [inv[p] EXCEPT !.pc = "d_ref_rename", !.stream = "none"]]
  /\ UNCHANGED <<store, fs, snap, prev, boot, crashed, caseVars>>

\* fs.renameSync(refTempDec, refFilePath)
DecRefRename(p) ==
  /\ inv[p].pc = "d_ref_rename"
  /\ LET r == inv[p]
         e == RefEntry(p)
         f == e.path
     IN \E fault \in FaultChoices :
          /\ Charge(fault)
          /\ IF fault
             THEN /\ inv' = [inv EXCEPT ![p] = PushRef(r, e)]
                  /\ fs' = fs
             ELSE /\ inv' = [inv EXCEPT ![p].pc = "d_ref_unlink"]
                  /\ fs' = [fs EXCEPT ![<<f, "">>] = fs[DecTemp(f)],
                                      ![DecTemp(f)] = AbsentC]
  /\ UNCHANGED <<store, snap, prev, boot, crashed, caseVars>>

\* if (existsSync(refBackup)) unlinkSync(refBackup); updatedReferences.push(ref.path)
DecRefUnlink(p) ==
  /\ inv[p].pc = "d_ref_unlink"
  /\ LET r == inv[p]
         e == RefEntry(p)
         f == e.path
     IN IF ~IsFile(fs[<<f, ".original">>])
        THEN /\ inv' = [inv EXCEPT ![p] = PushRef(r, PlainRef(f))]
             /\ UNCHANGED <<fs, faults>>
        ELSE \E fault \in FaultChoices :
               /\ Charge(fault)
               /\ IF fault
                  THEN /\ inv' = [inv EXCEPT ![p] = PushRef(r, e)]
                       /\ fs' = fs
                  ELSE /\ inv' = [inv EXCEPT ![p] = PushRef(r, PlainRef(f))]
                       /\ fs' = [fs EXCEPT ![<<f, ".original">>] = AbsentC]
  /\ UNCHANGED <<store, snap, prev, boot, crashed, caseVars>>

\* the write stream of the temporary file relative to the listeners that the
\* wait attaches once decryptToStream has resolved: its 'finish' / 'error' is
\* still to come ("pending"), or it was emitted before they were attached
\* ("missed"); an emitter does not replay an event to a later listener
StreamSettles(p) ==
  /\ inv[p].pc \in {"d_wait", "d_ref_wait"}
  /\ inv[p].stream = "none"
  /\ \E s \in {"pending", "missed"} : inv' = [inv EXCEPT ![p].stream = s]
  /\ UNCHANGED <<store, fs, faults, snap, prev, boot, crashed, caseVars>>

\* the wait completes when a listener is called
StreamWait(p) ==
  /\ inv[p].pc \in {"d_wait", "d_ref_wait"}
  /\ inv[p].stream = "pending"
  /\ DecWait(p) \/ DecRefWait(p)

\* (mutant) the update clears the flag and the metadata but keeps the stored reference list
DecUpdateRowKeepRefs(row, refs) ==
  [row EXCEPT !.is_encrypted = FALSE, !.encryption_metadata = NullMeta]

\* UPDATE document_tbl SET is_encrypted = FALSE, encryption_metadata = NULL, doc_reference = $1
DecUpdateRow(row, refs) ==
  [row EXCEPT !.is_encrypted = FALSE, !.encryption_metadata = NullMeta, !.doc_reference = refs]

\* await query(UPDATE ...); results.success.push(doc.doc_id)
DecUpdate(p) ==
  /\ inv[p].pc = "d_update"
  /\ LET r == inv[p]
         d == Doc(p).doc_id
     IN \E fault \in FaultChoices :
          /\ Charge(fault)
          /\ IF fault
             THEN /\ inv' = [inv EXCEPT ![p] = DecThrow(r, "update failed")]
                  /\ store' = store
             ELSE /\ inv' = [inv EXCEPT ![p] = NextDoc([r EXCEPT !.success = Append(@, d)])]
                  /\ store' = [store EXCEPT ![d] = DecUpdateRow(@, r.updatedReferences)]
  /\ UNCHANGED <<fs, snap, prev, boot, crashed, caseVars>>

(* ------------------------------- startup ------------------------------ *)
\* (mutant) only the presence of the key is checked
StartupCheckNoLength(k) ==
  IF ~k.set \/ k.len = 0 THEN "exited" ELSE "validated"

\* if (!process.env.MASTER_KEY) process.exit(1);
\* if (process.env.MASTER_KEY.length !== 64) process.exit(1)
StartupCheck(k) ==
  IF ~k.set \/ k.len = 0 THEN "exited"
  ELSE IF k.len # KeyLength THEN "exited"
  ELSE "validated"

\* the module body runs the validation of the master key
CheckMasterKey ==
  /\ boot.phase = "start"
  /\ boot' = [boot EXCEPT !.phase = StartupCheck(boot.key)]
  /\ UNCHANGED <<store, fs, inv, faults, snap, prev, crashed, caseVars>>

\* app.listen(port, "0.0.0.0", ...), further down the module body
Listen ==
  /\ boot.phase = "validated"
  /\ boot' = [boot EXCEPT !.phase = "listening"]
  /\ UNCHANGED <<store, fs, inv, faults, snap, prev, crashed, caseVars>>

\* the positions a request is at in the middle of a synchronous stretch of
\* code: no other request runs until it reaches its next await
SyncPcs ==
  {"e_doc", "e_rename", "e_ref", "e_ref_rename", "e_rollback", "e_rb_unlink",
   "d_rename", "d_unlink", "d_ref_rename", "d_ref_unlink"}

(* ----------------------- other document operations -------------------- *)
\* each of these operations is one awaited statement; a few of them in all,
\* served between the archive / un-archive calls
OpServed ==
  /\ prev.calls < MaxCalls
  /\ \A q \in Procs : inv[q].pc = "idle"
  /\ prev' = [prev EXCEPT !.calls = @ + 1]
  /\ UNCHANGED <<fs, inv, faults, snap, boot, crashed, caseVars>>

\* the fields of docData the model follows; NULL (here NullPath, NullRefs, 0)
\* leaves the column as it is
DocData(d) ==
  [doc_file : {NullPath, PathOf(d, 0)},
   doc_reference : {NullRefs, RefArray(<<>>)},
   case_id : {0, 2}]

\* createDocument: INSERT INTO document_tbl (...) RETURNING *, a row without a file
CreateDocument(c) ==
  /\ OpServed
  /\ Len(store) = NumDocs
  /\ store' = Append(store,
       [doc_id |-> NumDocs + 1, case_id |-> c, doc_file |-> NullPath,
        is_encrypted |-> FALSE, encryption_metadata |-> NullMeta,
        doc_reference |-> NullRefs, is_deleted |-> FALSE])

\* (mutant) replacing the file also resets the encryption state
UpdateDocumentRowResetState(row, data) ==
  [row EXCEPT !.doc_file = IF data.doc_file = NullPath THEN @ ELSE data.doc_file,
              !.doc_reference = IF data.doc_reference.isNull THEN @ ELSE data.doc_reference,
              !.case_id = IF data.case_id = 0 THEN @ ELSE data.case_id,
              !.is_encrypted = FALSE, !.encryption_metadata = NullMeta]

\* updateDocument: UPDATE document_tbl SET doc_file = COALESCE($5, doc_file), ...
UpdateDocumentRow(row, data) ==
  [row EXCEPT !.doc_file = IF data.doc_file = NullPath THEN @ ELSE data.doc_file,
              !.doc_reference = IF data.doc_reference.isNull THEN @ ELSE data.doc_reference,
              !.case_id = IF data.case_id = 0 THEN @ ELSE data.case_id]

UpdateDocument(d) ==
  /\ OpServed
  /\ \E data \in DocData(d) : store' = [store EXCEPT ![d] = UpdateDocumentRow(@, data)]

\* deleteDocument: SET is_deleted = true
DeleteDocument(d) ==
  /\ OpServed
  /\ store' = [store EXCEPT ![d].is_deleted = TRUE]

\* restoreDocument: SET is_deleted = false
RestoreDocument(d) ==
  /\ OpServed
  /\ store' = [store EXCEPT ![d].is_deleted = FALSE]

\* removeReferenceFromDocument: the elements whose JSON text is not the path
\* string stay ([] when none stays or the column was NULL)
IsNotPath(e, f) == e.structured \/ e.path # f
RemoveReference(refs, f) ==
  LET Keep(e) == IsNotPath(e, f) IN RefArray(SelectSeq(refs.items, Keep))
RemoveReferenceFromDocument(d, f) ==
  /\ OpServed
  /\ store' = [store EXCEPT ![d].doc_reference = RemoveReference(@, f)]

(* ----------------------------- environment ---------------------------- *)
\* someone alters the ciphertext of a file on disk
Tamper(f) ==
  /\ faults < MaxFaults
  /\ \A p \in Procs : inv[p].pc = "idle"
  /\ IsCipher(fs[<<f, "">>])
  /\ fs[<<f, "">>].layers[Len(fs[<<f, "">>].layers)].ok
  /\ fs' = [fs EXCEPT ![<<f, "">>] = TamperContent(@)]
  /\ faults' = faults + 1
  /\ UNCHANGED <<store, inv, snap, prev, boot, crashed, caseVars>>

\* the temporary file that the pending await of p is writing, if any
WritingTemp(p) ==
  LET r == inv[p]
  IN IF r.pc = "e_encrypt" THEN {EncTemp(FilePath(p))}
     ELSE IF r.pc = "e_ref_encrypt" THEN {EncTemp(RefEntry(p).path)}
     ELSE IF r.pc = "d_wait" THEN {DecTemp(FilePath(p))}
     ELSE IF r.pc = "d_ref_wait" THEN {DecTemp(RefEntry(p).path)}
     ELSE {}

\* the row had plaintext files and plain references on the disk and record store of x
PlainAt(x, row) ==
  /\ ~row.is_encrypted
  /\ row.doc_file \notin {NullPath, EmptyPath}
  /\ x.fs[<<row.doc_file, "">>] = Plain(row.doc_file)
  /\ \A j \in 1 .. Len(row.doc_reference.items) :
       /\ ~row.doc_reference.items[j].structured
       /\ x.fs[<<row.doc_reference.items[j].path, "">>]
            \in {Plain(row.doc_reference.items[j].path), AbsentC}

\* the process is interrupted (killed, power loss) while request p is being
\* served and is started again: what is in memory is lost, the disk and the
\* record store stay as they are, a file that was being written stays cut short
Crash(p) ==
  /\ inv[p].pc \notin {"idle", "done", "threw"}
  /\ faults < MaxFaults
  /\ faults' = faults + 1
  /\ \E cut \in SUBSET WritingTemp(p) :
       fs' = [x \in DOMAIN fs |-> IF x \in cut THEN PartialC ELSE fs[x]]
  /\ inv' = [q \in Procs |-> IdleInv]
  /\ crashed' =
       IF inv[p].op = "enc" /\ inv[p].pc \in {"e_encrypt", "e_rename"}
       THEN [doc |-> Doc(p).doc_id, caseId |-> inv[p].caseId,
             clean |-> PlainAt(snap[p], Doc(p)), faults |-> faults + 1]
       ELSE [NoCrash EXCEPT !.faults = faults + 1]
  /\ cache' = [k \in CacheKeys |-> NoEntry]
  /\ wraps' = [r \in Readers |-> IdleWrap]
  /\ mutation' = [mutation EXCEPT !.pc = "idle"]
  /\ UNCHANGED <<store, snap, prev, boot, case_tbl>>

(* ------------------- case services and their cache -------------------- *)
\* the rows of case_tbl: the cases that exist, each with its status
CaseRows(tbl) == {<<c, tbl[c]>> : c \in {x \in Cases : tbl[x] \in CaseStatuses}}

\* what the query behind a cached read returns from the table
QueryOf(k, tbl) ==
  CASE k[1] = "cases" -> CaseRows(tbl)                   \* getCases
    [] k[1] = "cases_by_user" -> CaseRows(tbl)           \* getCasesByUserId, every case is the user's
    [] k[1] = "case" ->                                  \* getCaseById: rows[0]
         {row \in CaseRows(tbl) : String(row[1]) = k[2]}
    [] k[1] = "cases_count" ->                           \* countProcessingCases: rows[0].count
         {Cardinality({row \in CaseRows(tbl) : row[2] = "Processing"})}
    [] k[1] = "case_search" ->                           \* searchCases('processing'): case_status ILIKE
         {row \in CaseRows(tbl) : row[2] = "Processing"}

\* the reads are asked for cases that exist
Askable(k) == k[1] = "case" => QueryOf(k, case_tbl) # {}

\* wrap: `if (cache.has(k)) return cache.get(k)`
WrapHit(r, k) ==
  /\ wraps[r].pc = "idle"
  /\ Askable(k)
  /\ cache[k].has
  /\ wraps' = [wraps EXCEPT ![r] = [pc |-> "done", key |-> k, value |-> cache[k].value,
                                    quiet |-> mutation.pc = "idle"]]
  /\ UNCHANGED <<docVars, case_tbl, cache, mutation>>

\* wrap: the key is not cached, `await fn()` is started
WrapMiss(r, k) ==
  /\ wraps[r].pc = "idle"
  /\ Askable(k)
  /\ ~cache[k].has
  /\ wraps' = [wraps EXCEPT ![r] = [pc |-> "fetching", key |-> k, value |-> {},
                                    quiet |-> mutation.pc = "idle"]]
  /\ UNCHANGED <<docVars, case_tbl, cache, mutation>>

\* fn: `const { rows } = await query(queryStr)`: the store answers
WrapFetch(r) ==
  /\ wraps[r].pc = "fetching"
  /\ wraps' = [wraps EXCEPT ![r].pc = "fetched",
                            ![r].value = QueryOf(wraps[r].key, case_tbl)]
  /\ UNCHANGED <<docVars, case_tbl, cache, mutation>>

\* wrap resumes: `cache.set(k, value, {ttl}); return value`
WrapSet(r) ==
  /\ wraps[r].pc = "fetched"
  /\ cache' = [cache EXCEPT ![wraps[r].key] = [has |-> TRUE, value |-> wraps[r].value]]
  /\ wraps' = [wraps EXCEPT ![r].pc = "done"]
  /\ UNCHANGED <<docVars, case_tbl, mutation>>

\* the caller has the value
WrapReturned(r) ==
  /\ wraps[r].pc = "done"
  /\ wraps' = [wraps EXCEPT ![r] = IdleWrap]
  /\ UNCHANGED <<docVars, case_tbl, cache, mutation>>

\* the ttl of an entry runs out, or the LRU evicts it
Expire(k) ==
  /\ cache[k].has
  /\ cache' = [cache EXCEPT ![k] = NoEntry]
  /\ UNCHANGED <<docVars, case_tbl, wraps, mutation>>

\* a mutation's statement is executed by the store; the reads in flight
\* are no longer reads that started after the last mutation
Mutate(op, c, tbl) ==
  /\ mutation.pc = "idle"
  /\ mutation.calls < MaxCalls
  /\ case_tbl' = tbl
  /\ mutation' = [pc |-> "invalidate", op |-> op, caseId |-> c, calls |-> mutation.calls + 1]
  /\ wraps' = [r \in Readers |-> [wraps[r] EXCEPT !.quiet = FALSE]]
  /\ UNCHANGED <<docVars, cache>>

\* createCase: INSERT INTO case_tbl ... RETURNING * (a new case_id)
createCase(c, status) ==
  /\ case_tbl[c] = "none"
  /\ Mutate("createCase", c, [case_tbl EXCEPT ![c] = status])

\* updateCase: UPDATE case_tbl SET ... WHERE case_id = $13
updateCase(c, status) ==
  /\ case_tbl[c] \in CaseStatuses
  /\ Mutate("updateCase", c, [case_tbl EXCEPT ![c] = status])

\* deleteCase: DELETE FROM case_tbl WHERE case_id = $1 (an existing case)
deleteCase(c) ==
  /\ case_tbl[c] \in CaseStatuses
  /\ Mutate("deleteCase", c, [case_tbl EXCEPT ![c] = "deleted"])

\* cache.del(ns, key)
del(ch, ns, key) == [ch EXCEPT ![nsKey(ns, key)] = NoEntry]
\* cache.delByPrefix("cases_by_user:")
delByPrefix(ch, ns) == [k \in CacheKeys |-> IF k[1] = ns THEN NoEntry ELSE ch[k]]

\* the invalidation at the end of createCase / updateCase / deleteCase
Invalidated(ch, op, c) ==
  LET own == IF op = "createCase" THEN ch ELSE del(ch, "case", String(c))
  IN del(delByPrefix(del(own, "cases", "all"), "cases_by_user"), "cases_count", "processing")

\* the mutation resumes after its query: the cache.del calls, `return rows[0]`
Invalidate ==
  /\ mutation.pc = "invalidate"
  /\ cache' = Invalidated(cache, mutation.op, mutation.caseId)
  /\ mutation' = [mutation EXCEPT !.pc = "idle"]
  /\ UNCHANGED <<docVars, case_tbl, wraps>>

(* ---------------------------- specification --------------------------- *)
Start(p) ==
  \/ \E c \in Cases : EncStart(p, c)
  \/ \E c \in Cases : DecStart(p, c)

Work(p) ==
  \/ EncBackup(p)
  \/ EncEncryptFile(p)
  \/ EncRename(p)
  \/ EncRefBackup(p)
  \/ EncRefEncryptFile(p)
  \/ EncRefRename(p)
  \/ EncUpdate(p)
  \/ EncRollback(p)
  \/ EncRollbackUnlink(p)
  \/ DecDecrypt(p)
  \/ DecWait(p)
  \/ DecRename(p)
  \/ DecUnlink(p)
  \/ DecRefDecrypt(p)
  \/ DecRefWait(p)
  \/ DecRefRename(p)
  \/ DecRefUnlink(p)
  \/ DecUpdate(p)

\* any sequence of archive / un-archive calls, with failures and tampering
Next ==
  \/ \E p \in Callers : Start(p) \/ Work(p) \/ Return(p)
  \/ \E f \in Files : Tamper(f)

Spec == Init /\ [][Next]_vars

\* a few calls in a row, each remembered when it returns
NextPair ==
  \/ \E p \in Callers : (prev.calls < MaxCalls /\ Start(p)) \/ Work(p) \/ ReturnRecorded(p)
  \/ \E f \in Files : Tamper(f)

SpecPair == Init /\ [][NextPair]_vars

\* archive / un-archive calls one after the other, with failures and interruptions
NextCrash ==
  \E p \in Callers : Start(p) \/ Work(p) \/ Return(p) \/ Crash(p)

SpecCrash == InitUp /\ [][NextCrash]_vars

InFlightCalls == Cardinality({q \in Procs : inv[q].pc # "idle"})

\* requests served concurrently by the one event loop: they interleave at the awaits
MayRun(p) == \A q \in Procs \ {p} : inv[q].pc \notin SyncPcs
NextConc ==
  \E p \in Procs :
    \/ MayRun(p) /\ prev.calls + InFlightCalls < MaxCalls /\ Start(p)
    \/ MayRun(p) /\ Work(p)
    \/ MayRun(p) /\ ReturnRecorded(p)

SpecConc == InitUp /\ [][NextConc]_vars

\* the server process from its start: the key check, the listener, then requests
InitBoot ==
  /\ InitData(0, {})
  /\ \E k \in MasterKeys : boot = [key |-> k, phase |-> "start"]

NextBoot ==
  \/ CheckMasterKey
  \/ Listen
  \/ \E p \in Callers :
       \/ boot.phase = "listening" /\ prev.calls < MaxCalls /\ Start(p)
       \/ Work(p)
       \/ ReturnRecorded(p)

SpecBoot == InitBoot /\ [][NextBoot]_vars

\* archive / un-archive calls and the other document operations, a few in all
NextDocs ==
  \/ \E p \in Callers :
       \/ prev.calls < MaxCalls /\ Start(p)
       \/ Work(p)
       \/ ReturnRecorded(p)
  \/ \E c \in Cases : CreateDocument(c)
  \/ \E d \in Docs : UpdateDocument(d)
  \/ \E d \in Docs : DeleteDocument(d)
  \/ \E d \in Docs : RestoreDocument(d)
  \/ \E d \in Docs : \E f \in RefFilesOf(d) \cup {PathOf(d, 0)} :
       RemoveReferenceFromDocument(d, f)

SpecDocs == InitUp /\ [][NextDocs]_vars

\* archive / un-archive calls in which, besides the injected failure, the
\* rollback of a failed document may fail as well
NextRollback ==
  \E p \in Callers : Start(p) \/ Work(p) \/ Return(p) \/ EncRollbackFails(p)

SpecRollback == InitUp /\ [][NextRollback]_vars

\* the steps of a call other than the waits for a write stream
StreamWork(p) ==
  \/ EncBackup(p)
  \/ EncEncryptFile(p)
  \/ EncRename(p)
  \/ EncRefBackup(p)
  \/ EncRefEncryptFile(p)
  \/ EncRefRename(p)
  \/ EncUpdate(p)
  \/ DecDecrypt(p)
  \/ DecRename(p)
  \/ DecUnlink(p)
  \/ DecRefDecrypt(p)
  \/ DecRefRename(p)
  \/ DecRefUnlink(p)
  \/ DecUpdate(p)

\* archive / un-archive calls in which nothing fails, with the events of the
\* write streams in either order relative to the wait for them
NextStream ==
  \E p \in Callers :
    \/ faults' = faults /\ Start(p)
    \/ faults' = faults /\ StreamWork(p)
    \/ StreamSettles(p)
    \/ faults' = faults /\ StreamWait(p)
    \/ Return(p)

\* the event loop runs every continuation that is ready
SpecStream == Init /\ [][NextStream]_vars /\ WF_vars(NextStream)

\* cached case reads and case mutations, interleaved at their awaits
NextCache ==
  \/ \E r \in Readers, k \in CacheKeys : WrapHit(r, k)
  \/ \E r \in Readers, k \in CacheKeys : WrapMiss(r, k)
  \/ \E r \in Readers : WrapFetch(r)
  \/ \E r \in Readers : WrapSet(r)
  \/ \E r \in Readers : WrapReturned(r)
  \/ \E k \in CacheKeys : Expire(k)
  \/ \E c \in Cases, status \in CaseStatuses : createCase(c, status)
  \/ \E c \in Cases, status \in CaseStatuses : updateCase(c, status)
  \/ \E c \in Cases : deleteCase(c)
  \/ Invalidate

SpecCache == InitUp /\ [][NextCache]_vars

(* ------------------------------- claims ------------------------------- *)
Ids(s) == {s[i] : i \in 1 .. Len(s)}
DocIds(rows) == {rows[i].doc_id : i \in 1 .. Len(rows)}
FailedIds(r) == {r.failed[i].docId : i \in 1 .. Len(r.failed)}
Returned(p, op) == inv[p].pc = "done" /\ inv[p].op = op
\* no failure was injected since the call of p started
CleanCall(p) == faults = snap[p].faults

\* the row has no primary file on the disk x
PrimaryMissing(row, x) ==
  row.doc_file \in {NullPath, EmptyPath} \/ ~IsFile(x[<<row.doc_file, "">>])
MissingDocs(p) ==
  {i \in 1 .. Len(inv[p].documents) : PrimaryMissing(inv[p].documents[i], snap[p].fs)}

AllProcessed(r) ==
  /\ r.idx = Len(r.documents)
  /\ Ids(r.success) \cup FailedIds(r) \subseteq DocIds(r.documents)
  /\ Ids(r.success) \cap FailedIds(r) = {}
  /\ \A i, j \in 1 .. Len(r.failed) : r.failed[i].docId = r.failed[j].docId => i = j
RefItems(d) == store[d].doc_reference.items
FullyEncrypted(d) ==
  /\ store[d].is_encrypted
  /\ store[d].encryption_metadata # NullMeta
  /\ IsCipher(fs[<<store[d].doc_file, "">>])
  /\ \A i \in 1 .. Len(RefItems(d)) :
       IF RefItems(d)[i].structured /\ RefItems(d)[i].isEncrypted
       THEN IsCipher(fs[<<RefItems(d)[i].path, "">>])
       ELSE ~IsCipher(fs[<<RefItems(d)[i].path, "">>])
FullyPlaintext(d) ==
  /\ ~store[d].is_encrypted
  /\ store[d].encryption_metadata = NullMeta
  /\ store[d].doc_file \in {NullPath, EmptyPath} \/ ~IsCipher(fs[<<store[d].doc_file, "">>])
  /\ \A i \in 1 .. Len(RefItems(d)) :
       /\ ~RefItems(d)[i].structured
       /\ ~IsCipher(fs[<<RefItems(d)[i].path, "">>])

\* C3: when a call returns, every document it processed is fully encrypted
\* or fully plaintext, record and files agreeing.
ProcessedConsistent ==
  \A p \in Procs :
    inv[p].pc = "done" =>
      \A d \in DocIds(inv[p].documents) : FullyEncrypted(d) \/ FullyPlaintext(d)

\* C4: in every state of the record store, a document has encryption
\* metadata if and only if it is flagged is_encrypted.
MetadataIffEncrypted ==
  \A d \in Docs : store[d].is_encrypted <=> store[d].encryption_metadata # NullMeta
\* a call returned with a failed document while some document is encrypted
EncryptedDespiteFailure ==
  /\ \E d \in Docs : store[d].is_encrypted
  /\ \E p \in Procs : inv[p].pc = "done" /\ Len(inv[p].failed) > 0

\* C5: in every returned result totalCount = success.length + failed.length.
CountsAddUp ==
  \A p \in Procs :
    inv[p].pc = "done" => inv[p].totalCount = Len(inv[p].success) + Len(inv[p].failed)

DocFiles(d) == {PathOf(d, 0)} \cup RefFilesOf(d)

\* C6: idempotence guard. While and after encryptDocumentFiles runs right
\* after a returned encryptDocumentFiles call on the same case, its candidate
\* rows are all flagged is_encrypted = false, totalCount counts exactly them,
\* and every document the first call reported in success is in none of the
\* second call's lists and keeps its record and its files as they were.
IdempotenceGuard ==
  \A p \in Procs :
    (inv[p].op = "enc" /\ inv[p].pc \notin {"idle", "threw"}
       /\ prev.op = "enc" /\ prev.caseId = inv[p].caseId) =>
      LET r == inv[p]
      IN /\ \A i \in 1 .. Len(r.documents) : ~r.documents[i].is_encrypted
         /\ r.totalCount = Len(r.documents)
         /\ \A d \in prev.success :
              /\ d \notin DocIds(r.documents) \cup Ids(r.success) \cup FailedIds(r)
              /\ store[d] = snap[p].store[d]
              /\ \A f \in DocFiles(d), x \in Sfx : fs[<<f, x>>] = snap[p].fs[<<f, x>>]
\* the second call returned after working on a document the first call left
SecondCallWorked ==
  \E p \in Procs :
    /\ Returned(p, "enc") /\ prev.op = "enc" /\ prev.caseId = inv[p].caseId
    /\ prev.success # {}
    /\ Len(inv[p].success) > 0

\* every document of the case has a primary file and all its files on disk
AllPresent(c) ==
  \A d \in Docs : store[d].case_id = c =>
    /\ store[d].doc_file \notin {NullPath, EmptyPath}
    /\ \A f \in DocFiles(d) : IsFile(fs[<<f, "">>])

\* C7: round trip. With no failure injected, when decryptDocumentFiles
\* returns right after encryptDocumentFiles on the same case, all of whose
\* documents have their files on disk, every primary and reference file
\* holds its original bytes and every record is back to is_encrypted FALSE,
\* metadata NULL and the original list of plain paths.
RoundTrip ==
  \A p \in Procs :
    (Returned(p, "dec") /\ faults = 0 /\ prev.op = "enc"
       /\ prev.caseId = inv[p].caseId /\ AllPresent(inv[p].caseId)) =>
      \A d \in Docs : store[d].case_id = inv[p].caseId =>
        /\ ~store[d].is_encrypted
        /\ store[d].encryption_metadata = NullMeta
        /\ store[d].doc_reference = InitRefs(d)
        /\ \A f \in DocFiles(d) : fs[<<f, "">>] = Plain(f)
\* the decrypt call of a round trip returned having decrypted a document with references
RoundTripDone ==
  \E p \in Procs :
    /\ Returned(p, "dec") /\ faults = 0 /\ prev.op = "enc"
    /\ prev.caseId = inv[p].caseId /\ AllPresent(inv[p].caseId)
    /\ \E d \in Ids(inv[p].success) : d \in prev.success /\ Len(InitRefs(d).items) > 0

\* the primary file of the row does not pass the integrity check on disk x
IntegrityFails(row, x) ==
  /\ row.doc_file \notin {NullPath, EmptyPath}
  /\ row.encryption_metadata # NullMeta
  /\ ~DecryptOk(x[<<row.doc_file, "">>], row.encryption_metadata)

\* C8: tamper detection. Throughout a decryptDocumentFiles call, a document
\* whose primary file fails its integrity check keeps the bytes it had at its
\* primary path when the call started, its record stays is_encrypted with its
\* metadata, and once it has been processed it is in failed.
TamperDetected ==
  \A p \in Procs :
    (inv[p].op = "dec" /\ inv[p].pc \notin {"idle", "threw"}) =>
      \A i \in 1 .. Len(inv[p].documents) :
        LET row == inv[p].documents[i]
        IN IntegrityFails(row, snap[p].fs) =>
             /\ fs[<<row.doc_file, "">>] = snap[p].fs[<<row.doc_file, "">>]
             /\ store[row.doc_id].is_encrypted
             /\ store[row.doc_id].encryption_metadata = row.encryption_metadata
             /\ (inv[p].pc = "done" \/ i < inv[p].idx) => row.doc_id \in FailedIds(inv[p])
\* a call returned after a primary file with altered ciphertext was refused
TamperedRefused ==
  \E p \in Procs :
    /\ Returned(p, "dec")
    /\ \E i \in 1 .. Len(inv[p].documents) :
         /\ IntegrityFails(inv[p].documents[i], snap[p].fs)
         /\ IsCipher(fs[<<inv[p].documents[i].doc_file, "">>])
         /\ [docId |-> inv[p].documents[i].doc_id, error |-> "integrity"] \in Ids(inv[p].failed)

RefsPlain(row) ==
  \A j \in 1 .. Len(row.doc_reference.items) : ~row.doc_reference.items[j].structured

\* what a reference entry of a successfully encrypted document must be, given
\* the original entry and the disk x at the start of the call
RefOutcomeOk(p, orig, e, x) ==
  /\ e.path = orig.path
  /\ IF e.structured
     THEN /\ e.isEncrypted
          /\ IsFile(x[<<e.path, "">>])
          /\ DecryptOk(fs[<<e.path, "">>], e.metadata)
          /\ Inner(fs[<<e.path, "">>]) = x[<<e.path, "">>]
     ELSE /\ e = orig
          /\ fs[<<e.path, "">>] = x[<<e.path, "">>]
  /\ ~IsFile(x[<<e.path, "">>]) => ~e.structured
  /\ (CleanCall(p) /\ IsFile(x[<<e.path, "">>])) => e.structured

RefOutcomes ==
  \A p \in Procs :
    Returned(p, "enc") =>
      \A i \in 1 .. Len(inv[p].documents) :
        LET row == inv[p].documents[i]
        IN (RefsPlain(row) /\ row.doc_id \in Ids(inv[p].success)) =>
             /\ store[row.doc_id].doc_reference.isNull = row.doc_reference.isNull
             /\ Len(RefItems(row.doc_id)) = Len(row.doc_reference.items)
             /\ \A j \in 1 .. Len(row.doc_reference.items) :
                  RefOutcomeOk(p, row.doc_reference.items[j], RefItems(row.doc_id)[j], snap[p].fs)

\* C9: reference partial failure. For a document with plain-path references
\* that encryptDocumentFiles reports in success, each reference encrypted in
\* the call is a structured entry whose own metadata decrypts its file to the
\* original bytes, each reference that was missing or failed is its original
\* plain string with its file untouched; and no step of the reference loop of
\* such a document ever enters the document's failure handling.
ReferencePartialFailure ==
  [][/\ \A p \in Procs :
          (inv[p].pc \in {"e_ref", "e_ref_encrypt", "e_ref_rename"} /\ RefsPlain(Doc(p)))
            => inv'[p].pc # "e_rollback"
     /\ RefOutcomes']_vars
\* a successfully encrypted document with one structured and one plain reference
MixedReferences ==
  \E p \in Procs :
    /\ Returned(p, "enc")
    /\ \E d \in Ids(inv[p].success) :
         /\ \E j \in 1 .. Len(RefItems(d)) : RefItems(d)[j].structured
         /\ \E j \in 1 .. Len(RefItems(d)) : ~RefItems(d)[j].structured

\* C10: in every state the stored doc_reference list of a document has the
\* length of the original list and, position by position, its logical paths.
ReferencePathsKept ==
  \A d \in Docs :
    /\ store[d].doc_reference.isNull = InitRefs(d).isNull
    /\ Len(RefItems(d)) = Len(InitRefs(d).items)
    /\ \A i \in 1 .. Len(RefItems(d)) : RefItems(d)[i].path = InitRefs(d).items[i].path
\* a reference failed to decrypt and stays a structured entry of a decrypted document
StuckReference ==
  \E d \in Docs : ~store[d].is_encrypted /\ \E i \in 1 .. Len(RefItems(d)) : RefItems(d)[i].structured

\* the files of a candidate row: its primary file and its reference files
RowFiles(row) ==
  (IF row.doc_file \in {NullPath, EmptyPath} THEN {} ELSE {row.doc_file})
    \cup {row.doc_reference.items[j].path : j \in 1 .. Len(row.doc_reference.items)}

\* C11: when encryptDocumentFiles returns, no backup (path + ".original") is
\* left of any file of a document it reports in success, nor, in a call in
\* which nothing failed but a file being absent, of any file of any document
\* of the batch (no rollback can have failed there).
BackupsGone ==
  \A p \in Procs :
    Returned(p, "enc") =>
      \A i \in 1 .. Len(inv[p].documents) :
        LET row == inv[p].documents[i]
        IN (row.doc_id \in Ids(inv[p].success) \/ CleanCall(p)) =>
             \A f \in RowFiles(row) : ~IsFile(fs[<<f, ".original">>])

\* content c is the complete content x or x after one complete transform
PreOrPost(x, c) ==
  \/ c = x
  \/ IsFile(x) /\ IsFile(c) /\ Len(c.layers) > 0 /\ Inner(c) = x
  \/ IsFile(x) /\ Len(x.layers) > 0 /\ c = Inner(x)

Interrupted == crashed.doc # 0 /\ crashed.clean /\ faults = crashed.faults
OneLayer(c, f) == IsFile(c) /\ Len(c.layers) = 1 /\ Inner(c) = Plain(f)
AfterInterruption ==
  Interrupted =>
    LET d == crashed.doc
        f == store[d].doc_file
    IN /\ fs[<<f, "">>] = Plain(f) \/ fs[<<f, ".original">>] = Plain(f)
       /\ \A p \in Procs :
            (Returned(p, "enc") /\ inv[p].caseId = crashed.caseId) =>
              /\ FullyEncrypted(d)
              /\ OneLayer(fs[<<f, "">>], f)
              /\ \A j \in 1 .. Len(RefItems(d)) :
                   RefItems(d)[j].structured =>
                     OneLayer(fs[<<RefItems(d)[j].path, "">>], RefItems(d)[j].path)

\* C13: atomicity under interruption. When the process is interrupted
\* between the backup copy and the rename of a plaintext document's primary
\* file, the record still says is_encrypted FALSE and the primary path holds
\* the original bytes; from then on the path or the backup holds them, and
\* when encryptDocumentFiles next returns for the case the document is fully
\* encrypted under exactly one layer.
AtomicityUnderInterruption ==
  [][/\ (crashed' # crashed /\ Interrupted') =>
          /\ ~store'[crashed'.doc].is_encrypted
          /\ fs'[<<store'[crashed'.doc].doc_file, "">>] = Plain(store'[crashed'.doc].doc_file)
     /\ AfterInterruption']_vars
\* the call after the interruption returned with the document in success
RerunEncrypted ==
  \E p \in Procs :
    /\ Returned(p, "enc") /\ Interrupted
    /\ crashed.doc \in Ids(inv[p].success)

\* the canonical path whose transform request p has in flight: its backup is
\* made and its temp file is being written or waits to be renamed
InFlight(p) ==
  IF inv[p].pc \in {"e_encrypt", "e_rename", "d_wait", "d_rename"} THEN {FilePath(p)}
  ELSE IF inv[p].pc \in {"e_ref_encrypt", "e_ref_rename", "d_ref_wait", "d_ref_rename"}
  THEN {RefEntry(p).path}
  ELSE {}

\* C14: no two requests in flight ever have a transform of the same canonical
\* path in flight at the same time.
ExclusivePaths ==
  \A p, q \in Procs : p # q => InFlight(p) \cap InFlight(q) = {}

\* the key is absent (or empty), or its length is not 64
WrongLength(k) == ~k.set \/ k.len # 64

\* C15: startup ordering. The listener is started only after the master key
\* check has passed; with MASTER_KEY absent or of a length other than 64 the
\* check ends the process, which stays ended, never listens and serves no
\* request; with a key of 64 hex characters the check passes.
StartupOrdering ==
  [][/\ (boot'.phase = "listening" /\ boot.phase # "listening") => boot.phase = "validated"
     /\ (boot.phase = "start" /\ boot'.phase # "start") =>
          boot'.phase = IF WrongLength(boot.key) THEN "exited" ELSE "validated"
     /\ boot.phase = "exited" => boot'.phase = "exited"
     /\ WrongLength(boot.key) =>
          /\ boot'.phase \in {"start", "exited"}
          /\ \A p \in Procs : inv'[p].pc = "idle"
     /\ boot.key = HexKey => boot'.phase # "exited"]_vars
\* started with 64 hex characters, the server listens and has served a call
ListeningWithHexKey ==
  boot.phase = "listening" /\ boot.key = HexKey /\ prev.calls > 0

\* C16: with a MASTER_KEY that is not exactly 64 hexadecimal characters the
\* process never gets past the startup check: it does not listen and no
\* request, hence no transform, runs.
MalformedKeyIsFatal ==
  ~(boot.key.set /\ boot.key.len = 64 /\ boot.key.hex) =>
    /\ boot.phase \in {"start", "exited"}
    /\ \A p \in Procs : inv[p].pc = "idle"

\* C17: a failure of the initial query makes the call throw instead of
\* returning a result, with no file and no record changed by the call; and
\* the call throws from nowhere else.
QueryFailurePropagates ==
  [][\A p \in Procs :
       /\ (inv[p].pc = "idle" /\ inv'[p].pc # "idle" /\ faults' # faults) =>
            inv'[p].pc = "threw"
       /\ (inv'[p].pc = "threw" /\ inv[p].pc # "threw") =>
            /\ inv[p].pc = "idle"
            /\ faults' # faults
            /\ inv'[p].success = <<>> /\ inv'[p].failed = <<>>
            /\ fs' = fs /\ store' = store
       /\ inv[p].pc = "threw" =>
            /\ inv'[p].pc \in {"threw", "idle"}
            /\ fs' = fs /\ store' = store]_vars
\* the query of an un-archive call failed while the case had encrypted documents
QueryThrew ==
  \E p \in Procs :
    /\ inv[p].pc = "threw" /\ inv[p].op = "dec"
    /\ \E d \in Docs : store[d].is_encrypted /\ store[d].case_id = inv[p].caseId

\* C18: is_encrypted and encryption_metadata of an existing row change only
\* in the UPDATE of encryptDocumentFiles or decryptDocumentFiles for that
\* row: every step of another document operation leaves both as they are.
EncryptionStateFrame ==
  [][\A d \in DOMAIN store :
       (store'[d].is_encrypted # store[d].is_encrypted
          \/ store'[d].encryption_metadata # store[d].encryption_metadata) =>
         \E p \in Procs :
           /\ inv[p].pc \in {"e_update", "d_update"}
           /\ Doc(p).doc_id = d
           /\ inv'[p] # inv[p]]_vars
\* an encrypted document was trashed, moved to another case or given other references
EncryptedRowEdited ==
  \E d \in Docs :
    /\ store[d].is_encrypted /\ store[d].encryption_metadata # NullMeta
    /\ \A p \in Procs : inv[p].pc = "idle"
    /\ \/ store[d].is_deleted
       \/ store[d].case_id # CaseOf(d)
       \/ store[d].doc_reference = RefArray(<<>>) /\ InitRefs(d) # RefArray(<<>>)

\* the error of the failure being handled
LastError(r) == IF Len(r.failed) = 0 THEN "none" ELSE r.failed[Len(r.failed)].error
\* request p ends, in this step, the handling of a failure with one of the errors
EndsFailure(p, errors) ==
  /\ inv[p].pc \in {"e_rollback", "e_rb_unlink"}
  /\ LastError(inv[p]) \in errors
  /\ inv'[p].pc \notin {"e_rollback", "e_rb_unlink", "idle"}
\* the record of the document is as queried and the document is reported failed
ReportedFailed(p) ==
  /\ store'[Doc(p).doc_id] = Doc(p)
  /\ Doc(p).doc_id \in FailedIds(inv'[p])
  /\ Doc(p).doc_id \notin Ids(inv'[p].success)

\* C19 (as claimed): when the primary transform failed after the backup copy,
\* or the UPDATE failed after the rename, then at the end of the document's
\* processing its primary path holds the bytes it had before the call, its
\* record is unchanged and it is in failed and not in success.
RollbackRestores ==
  [][\A p \in Procs :
       EndsFailure(p, {"encrypt failed", "rename failed", "update failed"}) =>
         /\ fs'[<<FilePath(p), "">>] = snap[p].fs[<<FilePath(p), "">>]
         /\ ReportedFailed(p)]_vars

\* C19 (amended): the same, except that when the rollback's own copy fails
\* the primary path is left as the failed step left it and the backup still
\* holds the original bytes.
RollbackRestoresUnlessFailed ==
  [][\A p \in Procs :
       EndsFailure(p, {"encrypt failed", "rename failed", "update failed"}) =>
         /\ inv[p].pc = "e_rb_unlink" =>
              fs'[<<FilePath(p), "">>] = snap[p].fs[<<FilePath(p), "">>]
         /\ inv[p].pc = "e_rollback" =>
              /\ fs'[<<FilePath(p), "">>] = fs[<<FilePath(p), "">>]
              /\ fs'[<<FilePath(p), ".original">>] = snap[p].fs[<<FilePath(p), "">>]
         /\ ReportedFailed(p)]_vars
\* a call returned after the rollback undid the encryption of a primary file
RolledBack ==
  \E p \in Procs :
    /\ Returned(p, "enc")
    /\ \E i \in 1 .. Len(inv[p].failed), j \in 1 .. Len(inv[p].documents) :
         /\ inv[p].failed[i] = [docId |-> inv[p].documents[j].doc_id, error |-> "update failed"]
         /\ fs[<<inv[p].documents[j].doc_file, "">>] = Plain(inv[p].documents[j].doc_file)
         /\ ~IsFile(fs[<<inv[p].documents[j].doc_file, ".original">>])

\* content c is what the call of p made of the file at path f by one transform
NewState(p, f, c) ==
  LET o == snap[p].fs[<<f, "">>]
  IN IF inv[p].op = "enc" THEN c # o /\ IsCipher(c) /\ Inner(c) = o
     ELSE c # o /\ c = Inner(o)
\* the decrypt call of p fails, in this step, the UPDATE of a document whose
\* primary file it has decrypted
DecUpdateFails(p) ==
  /\ inv[p].pc = "d_update"
  /\ inv'[p] # inv[p]
  /\ store' = store
  /\ NewState(p, FilePath(p), fs[<<FilePath(p), "">>])
\* in this step the primary file of the document is left in its new state
LeftInNewState(p) ==
  /\ NewState(p, FilePath(p), fs'[<<FilePath(p), "">>])
  /\ ReportedFailed(p)
\* the reference files the encrypt call of p has encrypted stay as they are
EncryptedReferencesStay(p) ==
  \A j \in 1 .. Len(inv[p].updatedReferences.items) :
    LET g == inv[p].updatedReferences.items[j].path
    IN NewState(p, g, fs[<<g, "">>]) => fs'[<<g, "">>] = fs[<<g, "">>]

\* C20 (as claimed): in both directions, when the UPDATE of a document fails
\* after the transform of its primary file, the file is left in its new
\* state, the record reports the old state and the document is in failed.
InconsistencyWindowBothWays ==
  [][\A p \in Procs :
       /\ DecUpdateFails(p) => LeftInNewState(p)
       /\ EndsFailure(p, {"update failed"}) => LeftInNewState(p)]_vars

\* C20 (amended): that is so after decryptDocumentFiles. After
\* encryptDocumentFiles the record reports the old state and the document is
\* in failed, but the primary file is rolled back to its original bytes; it
\* is left as ciphertext only when the rollback's own copy fails. The
\* reference files already encrypted stay ciphertext.
InconsistencyWindow ==
  [][\A p \in Procs :
       /\ DecUpdateFails(p) => LeftInNewState(p)
       /\ EndsFailure(p, {"update failed"}) =>
            /\ inv[p].pc = "e_rb_unlink" =>
                 fs'[<<FilePath(p), "">>] = snap[p].fs[<<FilePath(p), "">>]
            /\ inv[p].pc = "e_rollback" =>
                 NewState(p, FilePath(p), fs'[<<FilePath(p), "">>])
            /\ EncryptedReferencesStay(p)
            /\ ReportedFailed(p)]_vars
\* a decrypt call returned a document as failed whose primary file it has
\* decrypted while the record still says encrypted
DecryptedButRecordedEncrypted ==
  \E p \in Procs :
    /\ Returned(p, "dec")
    /\ \E i \in 1 .. Len(inv[p].failed), j \in 1 .. Len(inv[p].documents) :
         LET row == inv[p].documents[j]
         IN /\ inv[p].failed[i] = [docId |-> row.doc_id, error |-> "update failed"]
            /\ NewState(p, row.doc_file, fs[<<row.doc_file, "">>])
            /\ store[row.doc_id].is_encrypted

\* the path whose temporary file request p renames in its current position
RenameTarget(p) ==
  IF inv[p].pc \in {"e_rename", "d_rename"} THEN FilePath(p) ELSE RefEntry(p).path
\* request p renames, in this step, a temporary file over its target path
Renames(p) ==
  /\ inv[p].pc \in {"e_rename", "e_ref_rename", "d_rename", "d_ref_rename"}
  /\ fs'[<<RenameTarget(p), "">>] # fs[<<RenameTarget(p), "">>]

\* C21: at the moment a temporary file is renamed over a target path, primary
\* or reference, in encryptDocumentFiles or decryptDocumentFiles, a backup
\* (path + ".original") holding the bytes the target path has before the
\* rename exists.
BackupBeforeRename ==
  [][\A p \in Procs :
       Renames(p) =>
         fs[<<RenameTarget(p), ".original">>] = fs[<<RenameTarget(p), "">>]]_vars

\* C22: when encryptDocumentFiles / decryptDocumentFiles returns, no
\* temporary file (path + ".tmp.enc", path + ".tmp.dec") of a failed
\* transform, of a primary or a reference file, exists any more.
TempFilesRemoved ==
  \A p \in Procs :
    inv[p].pc = "done" =>
      \A f \in Files : ~IsFile(fs[EncTemp(f)]) /\ ~IsFile(fs[DecTemp(f)])

\* the file whose backup the decrypt call of p is about to remove
BeingUnlinked(p) ==
  IF inv[p].pc = "d_unlink" THEN {FilePath(p)}
  ELSE IF inv[p].pc = "d_ref_unlink" THEN {RefEntry(p).path}
  ELSE {}
\* the files the current call of p has replaced by a renamed temporary file
Replaced(p) == {f \in Files : fs[<<f, "">>] # snap[p].fs[<<f, "">>]}
HasBackup(f) == IsFile(fs[<<f, ".original">>])

DecryptedReferences(p, row) ==
  {row.doc_reference.items[j].path : j \in
     {i \in 1 .. Len(row.doc_reference.items) :
        /\ ~row.doc_reference.items[i].structured
        /\ row.doc_reference.items[i].path \in Replaced(p)}}
\* no backup is left for the files of the documents decrypted successfully
NoBackupAfterSuccess(p) ==
  (inv[p].op = "dec" /\ inv[p].pc = "done") =>
    \A j \in 1 .. Len(inv[p].documents) :
      LET row == inv[p].documents[j]
      IN row.doc_id \in Ids(inv[p].success) =>
           \A f \in {row.doc_file} \cup DecryptedReferences(p, store[row.doc_id]) :
             ~HasBackup(f)

StructuredEntryCarriedOver ==
  [][\A p \in Procs :
       (inv[p].pc = "e_ref" /\ RefEntry(p).structured) =>
         /\ fs' = fs
         /\ inv'[p].updatedReferences.items =
              Append(inv[p].updatedReferences.items, RefEntry(p))
         /\ Doc(p).doc_id \notin FailedIds(inv'[p])]_vars

\* the decrypt call of p writes, in this step, the record of its document
DecUpdateSucceeds(p) == inv[p].pc = "d_update" /\ store' # store
\* entry n is what the decrypt call of p must write for the original entry o
DecryptedEntryOk(p, o, n) ==
  LET g == <<o.path, "">>
  IN IF o.structured /\ o.isEncrypted
     THEN \/ n = PlainRef(o.path) /\ fs[g] # snap[p].fs[g] /\ fs[g] = Inner(snap[p].fs[g])
          \/ n = o /\ fs[g] = snap[p].fs[g]
     ELSE n = PlainRef(o.path)

\* C25: the reference list decryptDocumentFiles writes for a document it
\* decrypts successfully holds, in the original order, the plain path of each
\* encrypted entry that was decrypted and of each non-encrypted reference,
\* and unchanged each structured entry whose decryption failed.
DecryptedReferenceList ==
  [][\A p \in Procs :
       DecUpdateSucceeds(p) =>
         LET old == Doc(p).doc_reference
             new == store'[Doc(p).doc_id].doc_reference
         IN /\ new.isNull = old.isNull
            /\ Len(new.items) = Len(old.items)
            /\ \A i \in 1 .. Len(old.items) :
                 DecryptedEntryOk(p, old.items[i], new.items[i])
            /\ Doc(p).doc_id \in Ids(inv'[p].success)]_vars

\* the positions in which a request has finished with its current document
DocumentEnds ==
  {"e_doc", "e_update", "e_rollback", "e_rb_unlink",
   "d_doc", "d_update", "d_wait", "d_rename", "d_unlink"}
\* request p is inside the loop over its documents
InLoop(p) == inv[p].pc \notin {"idle", "done", "threw"}

\* C26: within one invocation the documents are processed one after the
\* other: every step that changes a file changes a file of the document the
\* loop is at, the loop moves from document k only to document k + 1, and
\* only from a position in which the sequence of document k has ended.
SequentialDocuments ==
  [][\A p \in Callers :
       InLoop(p) =>
         /\ \A x \in DOMAIN fs : fs'[x] # fs[x] => x[1] \in RowFiles(Doc(p))
         /\ inv'[p].pc # "idle" =>
              /\ inv'[p].idx \in {inv[p].idx, inv[p].idx + 1}
              /\ inv'[p].documents = inv[p].documents
         /\ inv'[p].idx = inv[p].idx + 1 =>
              /\ inv[p].pc \in DocumentEnds
              /\ inv'[p].pc \in {"e_doc", "d_doc"}
              /\ inv[p].documents[inv[p].idx].doc_id \in
                   Ids(inv'[p].success) \cup FailedIds(inv'[p])
                 \/ fs' = fs]_vars
\* a call returned that has transformed the primary files of two documents
TwoDocumentsProcessed ==
  \E p \in Procs :
    /\ inv[p].pc = "done"
    /\ Len(inv[p].documents) = 2
    /\ \A j \in 1 .. 2 :
         /\ inv[p].documents[j].doc_file \in Files
         /\ fs[<<inv[p].documents[j].doc_file, "">>] # snap[p].fs[<<inv[p].documents[j].doc_file, "">>]

\* C27: no double wrapping. In every state every primary file and every
\* reference file carries at most one layer of encryption.
NoDoubleWrapping ==
  \A f \in Files : Len(fs[<<f, "">>].layers) <= 1

\* C28: decryptDocumentFiles terminates: a call that has entered its loop
\* eventually leaves it (returns its result), whatever the order of the write
\* stream's events and the attachment of the listeners.
DecryptTerminates ==
  \A p \in Callers : (inv[p].op = "dec" /\ InLoop(p)) ~> ~InLoop(p)

\* C29: a cached read that started after the last mutation had returned, and
\* with no mutation since, returns what the table holds.
FreshAfterMutation ==
  \A r \in Readers :
    (wraps[r].pc = "done" /\ wraps[r].quiet) =>
      wraps[r].value = QueryOf(wraps[r].key, case_tbl)

\* C30: cache.wrap never stores, after the invalidation of a mutation has
\* run, a value for an invalidated key that was fetched before the mutation.
NoStaleSetAfterInvalidation ==
  [][\A r \in Readers :
       (/\ wraps[r].pc = "fetched"
        /\ wraps'[r].pc = "done"
        /\ mutation.pc = "idle"
        /\ wraps[r].key[1] # "case_search") =>
         cache'[wraps[r].key].value = QueryOf(wraps[r].key, case_tbl)]_vars

====
